---------------------------- MODULE Spec2Model ----------------------------
(***************************************************************************)
(* A model of the invoice field extraction of api/processor.py:            *)
(* extract_invoice_data (OCR, then the AI adapter, then the regex          *)
(* fallback), extract_with_ai, extract_vendor, extract_vendor_nlp,         *)
(* extract_date and extract_total, and of how api/index.py reads the       *)
(* result.                                                                 *)
(*                                                                         *)
(* A text is a sequence of one-character strings.  The regular expressions *)
(* of the source are kept as syntax trees and matched by a backtracking    *)
(* matcher that finds the first match in the order Python's re module      *)
(* tries them, which is the match re returns.                              *)
(***************************************************************************)
EXTENDS Integers, Sequences, FiniteSets, TLC

VARIABLES
    pc,             \* where the call is: the next call it makes, or how it has ended
    ocr,            \* what the OCR service does with the image
    ai_env,         \* GEMINI_API_KEY and what the Gemini service answers
    raw_text,       \* the text handed to the extractors
    known_vendors,  \* the known_vendors argument
    frame,          \* the local variables of extract_invoice_data set so far
    calls,          \* the functions called so far, in order
    result          \* the value returned

vars == <<pc, ocr, ai_env, raw_text, known_vendors, frame, calls, result>>

\* Python's None where a str may stand: no str is equal to it, the empty str
\* <<>> included, since every element of a str is a single character.
Null == <<"None">>

-----------------------------------------------------------------------------
(* Characters *)

UpperSeq == <<"A","B","C","D","E","F","G","H","I","J","K","L","M",
              "N","O","P","Q","R","S","T","U","V","W","X","Y","Z">>
LowerSeq == <<"a","b","c","d","e","f","g","h","i","j","k","l","m",
              "n","o","p","q","r","s","t","u","v","w","x","y","z">>
DigitSeq == <<"0","1","2","3","4","5","6","7","8","9">>

SeqRange(q) == {q[n] : n \in 1..Len(q)}

Upper == SeqRange(UpperSeq)
Lower == SeqRange(LowerSeq)
\* \d
Digit == SeqRange(DigitSeq)
\* \s
Space == {" ", "\n", "\t", "\r", "\f"}
\* \w
WordChar == Upper \cup Lower \cup Digit \cup {"_"}
\* [\$€£]
CurrencySymbol == {"$", "€", "£"}

ToLowerMap == [c \in Upper |-> LowerSeq[CHOOSE n \in 1..Len(UpperSeq) : UpperSeq[n] = c]]
ToUpperMap == [c \in Lower |-> UpperSeq[CHOOSE n \in 1..Len(LowerSeq) : LowerSeq[n] = c]]
DigitValueMap == [c \in Digit |-> (CHOOSE n \in 1..Len(DigitSeq) : DigitSeq[n] = c) - 1]

\* The other case of a cased character (re.IGNORECASE compares both).
SwapCase(c) ==
    IF c \in Upper THEN ToLowerMap[c]
    ELSE IF c \in Lower THEN ToUpperMap[c]
    ELSE c

-----------------------------------------------------------------------------
(* Sequences of characters *)

SubStr(s, from, to) == [n \in 1..(to - from) |-> s[from + n]]

\* w occurs in s starting after offset i.
OccursAt(w, s, i) ==
    /\ i + Len(w) <= Len(s)
    /\ \A n \in 1..Len(w) : s[i + n] = w[n]

Contains(s, w) == \E i \in 0..(Len(s) - Len(w)) : OccursAt(w, s, i)

RECURSIVE Flatten(_)
Flatten(ss) == IF ss = <<>> THEN <<>> ELSE Head(ss) \o Flatten(Tail(ss))

-----------------------------------------------------------------------------
(* Regular expressions: syntax *)

Chr(S) == [k |-> "set", cs |-> S]
Str(w) == [k |-> "str", w |-> w]
AnyChar == [k |-> "dot"]
WordBoundary == [k |-> "wb"]
\* ^ and $ (without re.MULTILINE)
LineStart == [k |-> "bos"]
LineEnd == [k |-> "eos"]
Cat(rs) == [k |-> "cat", rs |-> rs]
Alt(rs) == [k |-> "alt", rs |-> rs]
\* r{lo,hi}, greedy; hi < 0 stands for no upper limit.
Rep(r, lo, hi) == [k |-> "rep", r |-> r, lo |-> lo, hi |-> hi]
Star(r) == Rep(r, 0, -1)
Plus(r) == Rep(r, 1, -1)
Opt(r) == Rep(r, 0, 1)

(* Regular expressions: matching *)

InClass(c, S, ic) == c \in S \/ (ic /\ SwapCase(c) \in S)

StrAt(w, s, i, ic) ==
    /\ i + Len(w) <= Len(s)
    /\ \A n \in 1..Len(w) : s[i + n] = w[n] \/ (ic /\ SwapCase(s[i + n]) = w[n])

IsWordAt(s, n) == n >= 1 /\ n <= Len(s) /\ s[n] \in WordChar

\* The start of group 1.
GroupStart == [k |-> "grp"]

NoMatch == [found |-> FALSE]

\* Whether the expression takes exactly one character.
OneChar(r) == r.k \in {"set", "dot"}

\* Whether the character after offset i of s is one that r, which takes one
\* character, takes.
Takes(r, s, i, ic) ==
    /\ i < Len(s)
    /\ IF r.k = "set" THEN InClass(s[i + 1], r.cs, ic) ELSE s[i + 1] # "\n"

\* How many characters from offset i on r takes one after the other, up to hi.
RunLength(r, s, i, hi, ic) ==
    LET most == IF hi < 0 \/ hi > Len(s) - i THEN Len(s) - i ELSE hi
    IN  CHOOSE n \in 0..most :
            /\ \A j \in 0..(n - 1) : Takes(r, s, i + j, ic)
            /\ n = most \/ ~Takes(r, s, i + n, ic)

Largest(S) == CHOOSE n \in S : \A k \in S : k <= n
Smallest(S) == CHOOSE n \in S : \A k \in S : n <= k

RECURSIVE Run(_, _, _, _, _)
\* The backtracking matcher: the first way, in the order re tries them, to match
\* the expressions of todo one after the other from offset i of s; g is where
\* group 1 started.  A repetition is greedy: of the numbers of rounds after which
\* the rest matches, it takes the largest; an alternation takes the leftmost of
\* its branches after which the rest matches.
Run(todo, s, i, g, ic) ==
    IF todo = <<>> THEN [found |-> TRUE, gstart |-> g, end |-> i]
    ELSE LET r == Head(todo)
             rest == Tail(todo)
         IN  CASE OneChar(r) ->
                    IF Takes(r, s, i, ic) THEN Run(rest, s, i + 1, g, ic) ELSE NoMatch
               [] r.k = "str" ->
                    IF StrAt(r.w, s, i, ic) THEN Run(rest, s, i + Len(r.w), g, ic) ELSE NoMatch
               [] r.k = "wb" ->
                    IF IsWordAt(s, i) # IsWordAt(s, i + 1)
                    THEN Run(rest, s, i, g, ic) ELSE NoMatch
               [] r.k = "bos" -> IF i = 0 THEN Run(rest, s, i, g, ic) ELSE NoMatch
               [] r.k = "eos" ->
                    IF i = Len(s) \/ (i = Len(s) - 1 /\ s[Len(s)] = "\n")
                    THEN Run(rest, s, i, g, ic) ELSE NoMatch
               [] r.k = "grp" -> Run(rest, s, i, i, ic)
               [] r.k = "cat" -> Run(r.rs \o rest, s, i, g, ic)
               [] r.k = "alt" ->
                    LET branches == {n \in 1..Len(r.rs) :
                                        Run(<<r.rs[n]>> \o rest, s, i, g, ic).found}
                    IN  IF branches = {} THEN NoMatch
                        ELSE Run(<<r.rs[Smallest(branches)]>> \o rest, s, i, g, ic)
               [] r.k = "rep" /\ OneChar(r.r) ->
                    LET rounds == {n \in r.lo..RunLength(r.r, s, i, r.hi, ic) :
                                      Run(rest, s, i + n, g, ic).found}
                    IN  IF rounds = {} THEN NoMatch
                        ELSE Run(rest, s, i + Largest(rounds), g, ic)
               [] r.k = "rep" /\ ~OneChar(r.r) ->
                    LET again == Run(<<r.r, Rep(r.r, IF r.lo > 0 THEN r.lo - 1 ELSE 0,
                                                IF r.hi > 0 THEN r.hi - 1 ELSE r.hi)>>
                                     \o rest, s, i, g, ic)
                    IN  IF r.hi # 0 /\ again.found THEN again
                        ELSE IF r.lo = 0 THEN Run(rest, s, i, g, ic)
                        ELSE NoMatch

\* The match object of a run m that started at offset i.
MatchFrom(i, m) ==
    IF m.found THEN [found |-> TRUE, start |-> i, gstart |-> m.gstart, end |-> m.end]
    ELSE NoMatch

\* The match of pre followed by the group grp that starts at offset i: what
\* re's match object holds, with grp as group 1.
MatchAt(pre, grp, s, i, ic) == MatchFrom(i, Run(<<pre, GroupStart, grp>>, s, i, i, ic))

\* The match at the first of the offsets in starts.
Leftmost(pre, grp, s, starts, ic) ==
    IF starts = {} THEN NoMatch ELSE MatchAt(pre, grp, s, Smallest(starts), ic)

\* The leftmost match that starts at offset i or later.
SearchFrom(pre, grp, s, i, ic) ==
    Leftmost(pre, grp, s, {n \in i..Len(s) : MatchAt(pre, grp, s, n, ic).found}, ic)

\* re.search(pattern, s, flags): the leftmost match.
Search(pre, grp, s, ic) == SearchFrom(pre, grp, s, 0, ic)

\* re.match(pattern, s): a match at the start of s.
Match(pre, grp, s, ic) == MatchAt(pre, grp, s, 0, ic)

Group0(s, m) == SubStr(s, m.start, m.end)
Group1(s, m) == SubStr(s, m.gstart, m.end)

\* The empty prefix, for a pattern that is read through group 0 only.
Empty == Cat(<<>>)

-----------------------------------------------------------------------------
(* extract_date *)

D == Chr(Digit)

MonthName ==
    Alt(<<Str(<<"J","a","n","u","a","r","y">>),
          Str(<<"F","e","b","r","u","a","r","y">>),
          Str(<<"M","a","r","c","h">>),
          Str(<<"A","p","r","i","l">>),
          Str(<<"M","a","y">>),
          Str(<<"J","u","n","e">>),
          Str(<<"J","u","l","y">>),
          Str(<<"A","u","g","u","s","t">>),
          Str(<<"S","e","p","t","e","m","b","e","r">>),
          Str(<<"O","c","t","o","b","e","r">>),
          Str(<<"N","o","v","e","m","b","e","r">>),
          Str(<<"D","e","c","e","m","b","e","r">>),
          Str(<<"J","a","n">>),
          Str(<<"F","e","b">>),
          Str(<<"M","a","r">>),
          Str(<<"A","p","r">>),
          Str(<<"M","a","y">>),
          Str(<<"J","u","n">>),
          Str(<<"J","u","l">>),
          Str(<<"A","u","g">>),
          Str(<<"S","e","p">>),
          Str(<<"O","c","t">>),
          Str(<<"N","o","v">>),
          Str(<<"D","e","c">>)>>)

\* \b\d{1,2}/\d{1,2}/\d{2,4}\b
date_pattern1 ==
    Cat(<<WordBoundary, Rep(D, 1, 2), Str(<<"/">>), Rep(D, 1, 2), Str(<<"/">>),
          Rep(D, 2, 4), WordBoundary>>)

\* \b\d{1,2}-\d{1,2}-\d{2,4}\b
date_pattern2 ==
    Cat(<<WordBoundary, Rep(D, 1, 2), Str(<<"-">>), Rep(D, 1, 2), Str(<<"-">>),
          Rep(D, 2, 4), WordBoundary>>)

\* \b\d{4}-\d{1,2}-\d{1,2}\b
date_pattern3 ==
    Cat(<<WordBoundary, Rep(D, 4, 4), Str(<<"-">>), Rep(D, 1, 2), Str(<<"-">>),
          Rep(D, 1, 2), WordBoundary>>)

\* \b\d{1,2}\.\d{1,2}\.\d{2,4}\b
date_pattern4 ==
    Cat(<<WordBoundary, Rep(D, 1, 2), Str(<<".">>), Rep(D, 1, 2), Str(<<".">>),
          Rep(D, 2, 4), WordBoundary>>)

\* \b(?:January|...|Dec)\.?\s+\d{1,2},?\s+\d{4}\b
date_pattern5 ==
    Cat(<<WordBoundary, MonthName, Opt(Str(<<".">>)), Plus(Chr(Space)), Rep(D, 1, 2),
          Opt(Str(<<",">>)), Plus(Chr(Space)), Rep(D, 4, 4), WordBoundary>>)

\* \b\d{1,2}\s+(?:January|...|Dec)\.?\s+\d{4}\b
date_pattern6 ==
    Cat(<<WordBoundary, Rep(D, 1, 2), Plus(Chr(Space)), MonthName, Opt(Str(<<".">>)),
          Plus(Chr(Space)), Rep(D, 4, 4), WordBoundary>>)

\* (?:Date|Invoice\s+Date|Bill\s+Date|Due\s+Date)[\s:]*
date_pattern7_keyword ==
    Cat(<<Alt(<<Str(<<"D","a","t","e">>),
                Cat(<<Str(<<"I","n","v","o","i","c","e">>), Plus(Chr(Space)),
                      Str(<<"D","a","t","e">>)>>),
                Cat(<<Str(<<"B","i","l","l">>), Plus(Chr(Space)), Str(<<"D","a","t","e">>)>>),
                Cat(<<Str(<<"D","u","e">>), Plus(Chr(Space)), Str(<<"D","a","t","e">>)>>)>>),
          Star(Chr(Space \cup {":"}))>>)

\* (\d{1,2}[\/\-\.]\d{1,2}[\/\-\.]\d{2,4})
date_pattern7_group ==
    Cat(<<Rep(D, 1, 2), Chr({"/", "-", "."}), Rep(D, 1, 2), Chr({"/", "-", "."}),
          Rep(D, 2, 4)>>)

\* patterns = [pattern3, pattern4, pattern1, pattern2, pattern5, pattern6]
date_patterns_swapped ==
    <<date_pattern1, date_pattern2, date_pattern3, date_pattern4, date_pattern5,
      date_pattern6>>

date_patterns ==
    <<date_pattern3, date_pattern4, date_pattern1, date_pattern2, date_pattern5,
      date_pattern6>>

RECURSIVE date_loop(_, _, _), date_loop_body(_, _, _, _)
\* for pattern in patterns: match = re.search(pattern, text, re.IGNORECASE)
date_loop(patterns, j, text) ==
    IF j > Len(patterns) THEN Null
    ELSE date_loop_body(patterns, j, text, Search(Empty, patterns[j], text, TRUE))

\* if match: return match.group(0)
date_loop_body(patterns, j, text, match) ==
    IF match.found THEN Group0(text, match) ELSE date_loop(patterns, j + 1, text)

\* if match: return match.group(1), and the loop over the patterns
date_keyword_first(text, match) ==
    IF match.found THEN Group1(text, match) ELSE date_loop(date_patterns, 1, text)

\* match = re.search(pattern7, text, re.IGNORECASE)
extract_date(text) ==
    date_keyword_first(text, Search(date_pattern7_keyword, date_pattern7_group, text, TRUE))

-----------------------------------------------------------------------------
(* str methods *)

RECURSIVE LStrip(_), RStrip(_)
LStrip(s) == IF s # <<>> /\ Head(s) \in Space THEN LStrip(Tail(s)) ELSE s
RStrip(s) ==
    IF s # <<>> /\ s[Len(s)] \in Space THEN RStrip(SubStr(s, 0, Len(s) - 1)) ELSE s

\* s.strip()
Strip(s) == RStrip(LStrip(s))

\* s.replace(c, '')
Remove(s, c) == SelectSeq(s, LAMBDA x : x # c)

RECURSIVE SplitFrom(_, _, _, _)
SplitFrom(s, c, from, i) ==
    IF i > Len(s) THEN <<SubStr(s, from, Len(s))>>
    ELSE IF s[i] = c THEN <<SubStr(s, from, i - 1)>> \o SplitFrom(s, c, i, i + 1)
    ELSE SplitFrom(s, c, from, i + 1)

\* s.split(c)
Split(s, c) == SplitFrom(s, c, 0, 1)

-----------------------------------------------------------------------------
(* extract_total *)

\* (?:Total|Amount\s+Due|Balance\s+Due|Grand\s+Total|Invoice\s+Total)
total_keywords ==
    Alt(<<Str(<<"T","o","t","a","l">>),
          Cat(<<Str(<<"A","m","o","u","n","t">>), Plus(Chr(Space)), Str(<<"D","u","e">>)>>),
          Cat(<<Str(<<"B","a","l","a","n","c","e">>), Plus(Chr(Space)),
                Str(<<"D","u","e">>)>>),
          Cat(<<Str(<<"G","r","a","n","d">>), Plus(Chr(Space)),
                Str(<<"T","o","t","a","l">>)>>),
          Cat(<<Str(<<"I","n","v","o","i","c","e">>), Plus(Chr(Space)),
                Str(<<"T","o","t","a","l">>)>>)>>)

\* (?:Total|...)[\s:]*[\$€£]?\s*(\d{1,3}(?:[,.\s]\d{3})*(?:[.,]\d{2})?)
total_pattern1 ==
    Cat(<<total_keywords,
          Star(Chr(Space \cup {":"})),
          Opt(Chr(CurrencySymbol)),
          Star(Chr(Space)),
          Rep(D, 1, 3),
          Star(Cat(<<Chr({",", "."} \cup Space), Rep(D, 3, 3)>>)),
          Opt(Cat(<<Chr({".", ","}), Rep(D, 2, 2)>>))>>)

\* [\$€£]?\s*, a symbol that may be missing
total_pattern2_symbol_optional == Cat(<<Opt(Chr(CurrencySymbol)), Star(Chr(Space))>>)

\* [\$€£]\s*
total_pattern2_symbol == Cat(<<Chr(CurrencySymbol), Star(Chr(Space))>>)

\* (\d{1,3}(?:,\d{3})*(?:\.\d{2})?)
total_pattern2_group ==
    Cat(<<Rep(D, 1, 3),
          Star(Cat(<<Str(<<",">>), Rep(D, 3, 3)>>)),
          Opt(Cat(<<Str(<<".">>), Rep(D, 2, 2)>>))>>)

RECURSIVE FindAllFrom(_, _, _, _, _), FindAllAfter(_, _, _, _, _)
\* The groups of the matches from offset i on.
FindAllFrom(pre, grp, s, i, ic) == FindAllAfter(pre, grp, s, SearchFrom(pre, grp, s, i, ic), ic)

\* The group of the match m and those of the matches after it.
FindAllAfter(pre, grp, s, m, ic) ==
    IF ~m.found THEN <<>>
    ELSE <<Group1(s, m)>>
         \o FindAllFrom(pre, grp, s, IF m.end > m.start THEN m.end ELSE m.end + 1, ic)

\* re.findall(pattern, s) of a pattern with one group: group 1 of each of the
\* matches, which do not overlap, from left to right.
FindAll(pre, grp, s, ic) == FindAllFrom(pre, grp, s, 0, ic)

RECURSIVE IntOf(_)
\* int of a run of digits
IntOf(ds) == IF ds = <<>> THEN 0 ELSE 10 * IntOf(SubStr(ds, 0, Len(ds) - 1)) + DigitValueMap[ds[Len(ds)]]

\* float(m.replace(',', '')) of an amount with no or two decimals, in hundredths
FloatOf(m) ==
    LET t == Remove(m, ",")
        dot == {i \in 1..Len(t) : t[i] = "."}
    IN  IF dot = {} THEN 100 * IntOf(t)
        ELSE LET i == CHOOSE n \in dot : TRUE
             IN  100 * IntOf(SubStr(t, 0, i - 1)) + IntOf(SubStr(t, i, Len(t)))

\* max(amounts, key=lambda x: x[1]): the first of the largest
MaxByValue(amounts) ==
    LET n == CHOOSE i \in 1..Len(amounts) :
                 /\ \A j \in 1..Len(amounts) : amounts[j][2] <= amounts[i][2]
                 /\ \A j \in 1..(i - 1) : amounts[j][2] < amounts[i][2]
    IN  amounts[n]

\* amounts = [(m, float(m.replace(',', ''))) for m in matches]
amounts_of(matches) == [n \in 1..Len(matches) |-> <<matches[n], FloatOf(matches[n])>>]

\* if matches: largest = max(amounts, ...); return f"${largest[0]}"
total_largest(matches) ==
    IF matches # <<>> THEN <<"$">> \o MaxByValue(amounts_of(matches))[1] ELSE Null

\* if match: return match.group(0).strip(), and matches = re.findall(pattern2, text)
total_keyword_first(text, match) ==
    IF match.found THEN Strip(Group0(text, match))
    ELSE total_largest(FindAll(total_pattern2_symbol, total_pattern2_group, text, FALSE))

\* match = re.search(pattern1, text, re.IGNORECASE)
extract_total(text) == total_keyword_first(text, Search(Empty, total_pattern1, text, TRUE))

-----------------------------------------------------------------------------
(* extract_vendor, extract_vendor_nlp *)

\* DEPRECATED: return None
extract_vendor(text, vendors) == Null

\* (?:Bill\s+From|From|Vendor|Sold\s+by|Invoice\s+from)[\s:]+
vendor_pattern_a ==
    Cat(<<Alt(<<Cat(<<Str(<<"B","i","l","l">>), Plus(Chr(Space)), Str(<<"F","r","o","m">>)>>),
                Str(<<"F","r","o","m">>),
                Str(<<"V","e","n","d","o","r">>),
                Cat(<<Str(<<"S","o","l","d">>), Plus(Chr(Space)), Str(<<"b","y">>)>>),
                Cat(<<Str(<<"I","n","v","o","i","c","e">>), Plus(Chr(Space)),
                      Str(<<"f","r","o","m">>)>>)>>),
          Plus(Chr(Space \cup {":"}))>>)

\* (?:Billed\s+by|Supplier|Company)[\s:]+
vendor_pattern_b ==
    Cat(<<Alt(<<Cat(<<Str(<<"B","i","l","l","e","d">>), Plus(Chr(Space)), Str(<<"b","y">>)>>),
                Str(<<"S","u","p","p","l","i","e","r">>),
                Str(<<"C","o","m","p","a","n","y">>)>>),
          Plus(Chr(Space \cup {":"}))>>)

vendor_patterns == <<vendor_pattern_a, vendor_pattern_b>>

\* (.+)
vendor_rest == Plus(AnyChar)

\* re.sub(r'[^\w&.-]', '', s), which drops the white space too
clean_no_space(s) == SelectSeq(s, LAMBDA c : c \in WordChar \cup {"&", ".", "-"})

\* re.sub(r'[^\w\s&.-]', '', s)
clean(s) == SelectSeq(s, LAMBDA c : c \in WordChar \cup Space \cup {"&", ".", "-"})

RECURSIVE strategy1(_, _, _), strategy1_match(_, _, _, _), strategy1_vendor(_, _, _, _)
\* for pattern in vendor_patterns: for line in lines:
\*     match = re.search(pattern, line, re.IGNORECASE)
strategy1(lines, p, l) ==
    IF p > Len(vendor_patterns) THEN Null
    ELSE IF l > Len(lines) THEN strategy1(lines, p + 1, 1)
    ELSE strategy1_match(lines, p, l, Search(vendor_patterns[p], vendor_rest, lines[l], TRUE))

\* if match: vendor = match.group(1).strip(); vendor = re.sub(...)
strategy1_match(lines, p, l, match) ==
    IF match.found THEN strategy1_vendor(lines, p, l, clean(Strip(Group1(lines[l], match))))
    ELSE strategy1(lines, p, l + 1)

\* if vendor and len(vendor) > 2: return vendor
strategy1_vendor(lines, p, l, vendor) ==
    IF vendor # <<>> /\ Len(vendor) > 2 THEN vendor ELSE strategy1(lines, p, l + 1)

\* ^\d+$
only_numbers == Cat(<<LineStart, Plus(D), LineEnd>>)

\* ^[\d\s\-/()]+$
only_numbers_and_separators ==
    Cat(<<LineStart, Plus(Chr(Digit \cup Space \cup {"-", "/", "(", ")"})), LineEnd>>)

\* [A-Z][a-z]+
capitalized == Cat(<<Chr(Upper), Plus(Chr(Lower))>>)

RECURSIVE strategy2(_, _)
\* for line in lines[:5]: ...
strategy2(lines, l) ==
    IF l > Len(lines) \/ l > 5 THEN Null
    ELSE LET line == Strip(lines[l])
             cleaned == Strip(clean(line))
         IN  IF line = <<>> \/ Len(line) < 3 THEN strategy2(lines, l + 1)
             ELSE IF Match(Empty, only_numbers, line, FALSE).found
                  THEN strategy2(lines, l + 1)
             ELSE IF Match(Empty, only_numbers_and_separators, line, FALSE).found
                  THEN strategy2(lines, l + 1)
             ELSE IF /\ Search(Empty, capitalized, line, FALSE).found
                     /\ cleaned # <<>> /\ Len(cleaned) > 2 /\ Len(cleaned) < 100
                  THEN cleaned
             ELSE strategy2(lines, l + 1)

\* ([A-Z][A-Za-z\s&.-]+(?:Inc|LLC|Ltd|Corp|Corporation|Co|Company|Group|Enterprises|Solutions)\.?)
company_suffix_pattern ==
    Cat(<<Chr(Upper),
          Plus(Chr(Upper \cup Lower \cup Space \cup {"&", ".", "-"})),
          Alt(<<Str(<<"I","n","c">>),
                Str(<<"L","L","C">>),
                Str(<<"L","t","d">>),
                Str(<<"C","o","r","p">>),
                Str(<<"C","o","r","p","o","r","a","t","i","o","n">>),
                Str(<<"C","o">>),
                Str(<<"C","o","m","p","a","n","y">>),
                Str(<<"G","r","o","u","p">>),
                Str(<<"E","n","t","e","r","p","r","i","s","e","s">>),
                Str(<<"S","o","l","u","t","i","o","n","s">>)>>),
          Opt(Str(<<".">>))>>)

RECURSIVE strategy3(_, _), strategy3_match(_, _, _), strategy3_vendor(_, _, _)
\* for line in lines[:10]: match = re.search(company_pattern, line)
strategy3(lines, l) ==
    IF l > Len(lines) \/ l > 10 THEN Null
    ELSE strategy3_match(lines, l, Search(Empty, company_suffix_pattern, lines[l], FALSE))

\* if match: vendor = match.group(1).strip()
strategy3_match(lines, l, match) ==
    IF match.found THEN strategy3_vendor(lines, l, Strip(Group1(lines[l], match)))
    ELSE strategy3(lines, l + 1)

\* if len(vendor) > 3: return vendor
strategy3_vendor(lines, l, vendor) ==
    IF Len(vendor) > 3 THEN vendor ELSE strategy3(lines, l + 1)

\* The first of the strategies' answers that is not None.
FirstVendor(v1, v2, v3) == IF v1 # Null THEN v1 ELSE IF v2 # Null THEN v2 ELSE v3

\* The three strategies over the lines of the text.
vendor_of_lines(lines) ==
    FirstVendor(strategy1(lines, 1, 1), strategy2(lines, 1), strategy3(lines, 1))

\* if not text: return None; lines = text.strip().split('\n')
extract_vendor_nlp(text) ==
    IF text = <<>> THEN Null ELSE vendor_of_lines(Split(Strip(text), "\n"))

-----------------------------------------------------------------------------
(* dict *)

\* d.get(k, default)
Get(d, k, default) == IF k \in DOMAIN d THEN d[k] ELSE default

\* None where a dict may stand.
NoneDict == [None |-> TRUE]

\* bool(d) of a dict or None
truthy_any_field(d) ==
    /\ d # NoneDict
    /\ \E k \in DOMAIN d \ {"line_items"} : d[k] # Null

truthy(d) == d # NoneDict /\ DOMAIN d # {}

\* raw_text is None
falsy_none_only(s) == s = Null

\* not raw_text
falsy(s) == s = Null \/ s = <<>>

-----------------------------------------------------------------------------
(* perform_ocr *)

Raise(type, msg) == [raised |-> TRUE, type |-> type, msg |-> msg]
Return(value) == [raised |-> FALSE, value |-> value]

\* The OCR service: open() or the request fails, the status is an error, the
\* answer has IsErroredOnProcessing, has no ParsedResults, or has a ParsedText.
perform_ocr(service) ==
    CASE service.fault = "request" -> Raise("ConnectionError", service.msg)
      [] service.fault = "status" -> Raise("HTTPError", service.msg)
      [] service.fault = "errored" ->
            Raise("Exception",
                  <<"O","C","R",".","s","p","a","c","e"," ","A","P","I"," ",
                    "e","r","r","o","r",":"," ">> \o service.msg)
      [] service.fault = "no_results" -> Return(Null)
      [] OTHER -> Return(service.text)

-----------------------------------------------------------------------------
(* extract_with_ai *)

AiKeys ==
    {"vendor", "date", "total", "invoice_number", "tax", "subtotal", "summary",
     "line_items"}

\* generated_text.replace('```json', '').replace('```', '').strip()
strip_fences(generated_text) == [generated_text EXCEPT !.fence = FALSE]

\* json.loads
json_loads(t) ==
    IF t.fence \/ t.json.kind = "malformed" THEN Raise("JSONDecodeError", <<>>)
    ELSE Return(t.json)

\* The try block.
extract_with_ai_try(text, env) ==
    IF ~env.key THEN Return(NoneDict)
    ELSE IF env.post = "timeout" THEN Raise("Timeout", <<>>)
    ELSE IF env.post = "connection" THEN Raise("ConnectionError", <<>>)
    ELSE IF env.status_code # 200 THEN Return(NoneDict)
    ELSE IF env.body = "not_json" THEN Raise("ValueError", <<>>)
    ELSE IF env.body = "not_a_dict" THEN Raise("TypeError", <<>>)
    ELSE IF env.body \in {"no_candidates", "empty_candidates"} THEN Return(NoneDict)
    ELSE IF env.body \in {"no_content", "no_parts_key", "no_text"} THEN Raise("KeyError", <<>>)
    ELSE IF env.body = "empty_parts" THEN Raise("IndexError", <<>>)
    ELSE LET loaded == json_loads(strip_fences(env.generated_text))
         IN  IF loaded.raised THEN loaded
             ELSE IF loaded.value.kind # "object" THEN Raise("AttributeError", <<>>)
             ELSE Return([k \in AiKeys |->
                            Get(loaded.value.object, k,
                                IF k = "line_items" THEN <<>> ELSE Null)])

\* The except clauses without the last one, except Exception.
ai_except_named == {"Timeout", "ConnectionError", "JSONDecodeError", "KeyError"}

\* except Timeout, RequestException, JSONDecodeError, KeyError, Exception
ai_except ==
    {"Timeout", "ConnectionError", "JSONDecodeError", "KeyError", "ValueError",
     "TypeError", "IndexError", "AttributeError"}

extract_with_ai(text, env) ==
    LET r == extract_with_ai_try(text, env)
    IN  IF r.raised /\ r.type \in ai_except THEN Return(NoneDict) ELSE r

-----------------------------------------------------------------------------
(* process_invoice: how the endpoint reads the result *)

\* ai_used = result.get('_ai_used', False); 'ai' if ai_used else 'regex'
extraction_method(res) == IF Get(res, "_ai_used", FALSE) THEN "ai" ELSE "regex"

-----------------------------------------------------------------------------
(* Inputs *)

\* How many fragments a text handed to an extractor is put together from.
MaxFrags == 3

\* The texts put together from at most n of the given fragments.
TextsOf(frags, n) ==
    UNION {{Flatten(f) : f \in [1..k -> frags]} : k \in 0..n}

DateFragments ==
    {<<"d","u","e"," ","D","A","T","E",":"," ">>,
     <<"1","/","2","/","3","4">>,
     <<"2","0","2","4","-","1","-","2","\n">>,
     <<"1",".","2",".","3","4">>,
     <<"1","-","2","-","3","4">>,
     <<"J","a","n"," ","5",","," ","2","0","2","4">>,
     <<"5"," ","m","a","y"," ","2","0","2","4">>,
     <<"\n">>}

TotalFragments ==
    {<<"T","o","t","a","l",":"," ","$","1",",","2","3","4",".","5","6">>,
     <<"S","u","b","t","o","t","a","l",":"," ","$","5",".","0","0">>,
     <<"T","o","t","a","l"," ","3"," ","i","t","e","m","s">>,
     <<"\n">>,
     <<"$","2","0","0",".","0","0"," ">>,
     <<"€","9",",","0","0","0",".","0","0"," ">>,
     <<"$","1","2","3","4",".","5","6"," ">>,
     <<" ","1","2",".","5","0">>}

VendorFragments ==
    {<<"A","c","m","e"," ","C","o","r","p"," ","L","L","C">>,
     <<"\n">>,
     <<"F","r","o","m",":"," ","B","o","b"," ","I","n","c">>,
     <<"c","o","m","p","a","n","y",":"," ","#">>,
     <<"1","2","3","4","5">>,
     <<" ","(","x",")"," ">>,
     <<"S","o","l","d"," ","b","y">>,
     <<"a","t"," ","X","Y"," ","L","t","d",".">>}

\* How many of the known vendors the list handed to the fuzzy matcher holds.
MaxVendors == 2

\* KNOWN_VENDORS = ['Amazon', 'Walmart', 'Target', 'Best Buy', ...], its head
KNOWN_VENDORS ==
    <<<<"A","m","a","z","o","n">>,
      <<"W","a","l","m","a","r","t">>,
      <<"T","a","r","g","e","t">>,
      <<"B","e","s","t"," ","B","u","y">>>>

FuzzyFragments ==
    {<<"A","M","Z","N"," ","A","m","a","z","o","n"," ","W","e","b"," ",
       "S","e","r","v","i","c","e","s"," ","i","n","v","o","i","c","e">>,
     <<"x","y","z","1","2","3">>,
     <<"\n">>,
     <<"W","a","l","m","a","r","t">>}

OcrFragments ==
    {<<"F","r","o","m",":"," ","*"," ","A","c","m","e">>,
     <<"\n">>,
     <<"D","a","t","e",":"," ","1","/","2","/","3","4"," ","T","o","t","a","l",":"," ",
       "$","5">>}

\* str(e) of the exceptions of the OCR request
OcrMessages == {<<>>, <<"5","0","0">>}

OcrServices ==
    {[fault |-> f, msg |-> m, text |-> Null] :
        f \in {"request", "status", "errored"}, m \in OcrMessages}
    \cup {[fault |-> "no_results", msg |-> <<>>, text |-> Null]}
    \cup {[fault |-> "none", msg |-> <<>>, text |-> t] : t \in TextsOf(OcrFragments, MaxFrags)}

\* The JSON objects the model answers with.
AiObjects ==
    {<<>>,
     [vendor |-> Null, date |-> Null, total |-> Null, invoice_number |-> Null,
      tax |-> Null, subtotal |-> Null, summary |-> Null, line_items |-> <<>>],
     [vendor |-> <<"A","c","m","e">>, date |-> <<"1","/","2","/","3","4">>,
      total |-> <<"$","5">>, invoice_number |-> <<"7">>, tax |-> Null,
      subtotal |-> <<"$","4">>, summary |-> <<"x">>,
      line_items |-> <<[description |-> <<"a">>, quantity |-> <<"1">>,
                        price |-> <<"$","5">>]>>],
     [vendor |-> <<>>, date |-> Null, total |-> <<" ","$","5"," ">>]}

\* What the generated text holds between its code fences: a JSON value of some
\* kind, an object with its members.
Json(kind, object) == [kind |-> kind, object |-> object]

AiAnswer(body, fence, json) ==
    [key |-> TRUE, post |-> "ok", status_code |-> 200, body |-> body,
     generated_text |-> [fence |-> fence, json |-> json]]

NoAnswer == AiAnswer("none", FALSE, Json("null", <<>>))

AiEnvs ==
    {[NoAnswer EXCEPT !.key = FALSE]}
    \cup {[NoAnswer EXCEPT !.post = p] : p \in {"timeout", "connection"}}
    \cup {[NoAnswer EXCEPT !.status_code = 500]}
    \cup {[NoAnswer EXCEPT !.body = b] :
            b \in {"not_json", "not_a_dict", "no_candidates", "empty_candidates",
                   "no_content", "no_parts_key", "empty_parts", "no_text"}}
    \cup {AiAnswer("text", f, Json(j, <<>>)) :
            f \in BOOLEAN, j \in {"malformed", "array", "string", "number", "null"}}
    \cup {AiAnswer("text", f, Json("object", d)) : f \in BOOLEAN, d \in AiObjects}

-----------------------------------------------------------------------------
(* The date extractor called on its own *)

InitDate ==
    /\ pc = "extract_date"
    /\ raw_text \in TextsOf(DateFragments, MaxFrags)
    /\ ocr = Null
    /\ ai_env = Null
    /\ known_vendors = Null
    /\ frame = <<>>
    /\ calls = <<>>
    /\ result = Null

CallExtractDate ==
    /\ pc = "extract_date"
    /\ result' = extract_date(raw_text)
    /\ calls' = Append(calls, "extract_date")
    /\ pc' = "returned"
    /\ UNCHANGED <<ocr, ai_env, raw_text, known_vendors, frame>>

NextDate == CallExtractDate

SpecDate == InitDate /\ [][NextDate]_vars

-----------------------------------------------------------------------------
(* C9 *)

\* The patterns in the order of the claim: keyword-anchored numeric date, ISO,
\* dotted, slash, dash, "Month D, YYYY", "D Month YYYY".  Only the first has a
\* keyword before the date it returns.
C9_Priority ==
    <<[pre |-> date_pattern7_keyword, grp |-> date_pattern7_group],
      [pre |-> Empty, grp |-> date_pattern3],
      [pre |-> Empty, grp |-> date_pattern4],
      [pre |-> Empty, grp |-> date_pattern1],
      [pre |-> Empty, grp |-> date_pattern2],
      [pre |-> Empty, grp |-> date_pattern5],
      [pre |-> Empty, grp |-> date_pattern6]>>

C9_MatchesAt(j, text, i) ==
    MatchAt(C9_Priority[j].pre, C9_Priority[j].grp, text, i, TRUE)

C9_Matches(j, text) == \E i \in 0..Len(text) : C9_MatchesAt(j, text, i).found

\* Where pattern j first matches in document order.
C9_FirstOffset(j, text) ==
    CHOOSE i \in 0..Len(text) :
        /\ C9_MatchesAt(j, text, i).found
        /\ \A h \in 0..(i - 1) : ~C9_MatchesAt(j, text, h).found

\* C9: extract_date returns the match of the first pattern, in the priority order
\* keyword, ISO, dotted, slash, dash, "Month D, YYYY", "D Month YYYY", that matches
\* anywhere in the text, at that pattern's earliest match in document order,
\* whatever earlier positions lower-priority patterns match at; the keyword
\* pattern yields the date without the keyword, the others the matched text as
\* it stands; the result is None exactly when no pattern matches.
C9_DatePriorityOrder ==
    pc = "returned" =>
        LET hit == [j \in 1..Len(C9_Priority) |-> C9_Matches(j, raw_text)]
        IN  /\ (result = Null) <=> (\A j \in 1..Len(C9_Priority) : ~hit[j])
            /\ \A j \in 1..Len(C9_Priority) :
                  (hit[j] /\ \A h \in 1..(j - 1) : ~hit[h])
                  => LET m == C9_MatchesAt(j, raw_text, C9_FirstOffset(j, raw_text))
                     IN  /\ result = SubStr(raw_text, m.gstart, m.end)
                         /\ (j = 1 => m.gstart > m.start)
                         /\ (j > 1 => m.gstart = m.start)

\* A keyword-anchored date on a later line has won over an ISO date on an
\* earlier line.
C9_KeywordBeatsEarlierIso ==
    /\ pc = "returned"
    /\ C9_Matches(1, raw_text)
    /\ C9_Matches(2, raw_text)
    /\ C9_FirstOffset(2, raw_text) < C9_FirstOffset(1, raw_text)
    /\ \E i \in 1..Len(raw_text) :
          /\ raw_text[i] = "\n"
          /\ C9_FirstOffset(2, raw_text) < i
          /\ i <= C9_FirstOffset(1, raw_text)
    /\ result = <<"1","/","2","/","3","4">>

-----------------------------------------------------------------------------
(* The total extractor called on its own *)

InitTotal ==
    /\ pc = "extract_total"
    /\ raw_text \in TextsOf(TotalFragments, MaxFrags)
    /\ ocr = Null
    /\ ai_env = Null
    /\ known_vendors = Null
    /\ frame = <<>>
    /\ calls = <<>>
    /\ result = Null

CallExtractTotal ==
    /\ pc = "extract_total"
    /\ result' = extract_total(raw_text)
    /\ calls' = Append(calls, "extract_total")
    /\ pc' = "returned"
    /\ UNCHANGED <<ocr, ai_env, raw_text, known_vendors, frame>>

NextTotal == CallExtractTotal

SpecTotal == InitTotal /\ [][NextTotal]_vars

-----------------------------------------------------------------------------
(* C5 *)

C5_Needle == <<"T","o","t","a","l",":"," ","$","1",",","2","3","4",".","5","6">>

C5_Amount == <<"$","1",",","2","3","4",".","5","6">>

\* C5: for every text that contains "Total: $1,234.56" anywhere, whatever comes
\* before or after it, extract_total returns a string that contains "$1,234.56".
C5_TotalLineAlwaysFound ==
    (pc = "returned" /\ Contains(raw_text, C5_Needle)) => Contains(result, C5_Amount)

-----------------------------------------------------------------------------
(* C6 *)

\* A $, € or £ followed, after optional whitespace, by a digit.
C6_HasCurrencyShaped(text) ==
    \E i \in 1..Len(text) :
        /\ text[i] \in CurrencySymbol
        /\ \E j \in (i + 1)..Len(text) :
              /\ text[j] \in Digit
              /\ \A h \in (i + 1)..(j - 1) : text[h] \in Space

\* A total keyword followed, after optional whitespace and colons, an optional
\* currency symbol and optional whitespace, by a digit.
C6_KeywordThenDigit(text) ==
    Search(Empty,
           Cat(<<total_keywords, Star(Chr(Space \cup {":"})), Opt(Chr(CurrencySymbol)),
                 Star(Chr(Space)), D>>),
           text, TRUE).found

\* C6 as stated: for every text with no currency-shaped substring, extract_total
\* returns None, also when a total keyword is followed by a bare number.
C6_NoCurrencyGivesNone ==
    (pc = "returned" /\ ~C6_HasCurrencyShaped(raw_text)) => result = Null

\* C6, amended: for every text with no currency-shaped substring and with no
\* total keyword followed by a number, extract_total returns None.
C6_NoCurrencyNoKeywordGivesNone ==
    (pc = "returned" /\ ~C6_HasCurrencyShaped(raw_text) /\ ~C6_KeywordThenDigit(raw_text))
    => result = Null

\* A text with a bare number, no currency symbol and no total keyword has been
\* answered with None.
C6_BareNumberGivesNone ==
    /\ pc = "returned"
    /\ \E i \in 1..Len(raw_text) : raw_text[i] \in Digit
    /\ ~C6_HasCurrencyShaped(raw_text)
    /\ ~C6_KeywordThenDigit(raw_text)
    /\ result = Null

-----------------------------------------------------------------------------
(* C10 *)

RECURSIVE C10_IntEnd(_, _), C10_DigitsEnd(_, _)
\* Where the digits, with commas between digits, that start after offset e end.
C10_IntEnd(text, e) ==
    IF e < Len(text) /\ text[e + 1] \in Digit THEN C10_IntEnd(text, e + 1)
    ELSE IF e + 1 < Len(text) /\ text[e + 1] = "," /\ text[e + 2] \in Digit
         THEN C10_IntEnd(text, e + 2)
    ELSE e

C10_DigitsEnd(text, e) ==
    IF e < Len(text) /\ text[e + 1] \in Digit THEN C10_DigitsEnd(text, e + 1) ELSE e

\* The amount written after offset i: its digits, grouping commas and decimals.
C10_AmountEnd(text, i) ==
    LET e == C10_IntEnd(text, i)
    IN  IF e + 1 < Len(text) /\ text[e + 1] = "." /\ text[e + 2] \in Digit
        THEN C10_DigitsEnd(text, e + 1)
        ELSE e

\* The value of an amount in hundredths, grouping commas removed.
C10_Value(amount) ==
    LET t == Remove(amount, ",")
        dot == {i \in 1..Len(t) : t[i] = "."}
    IN  IF dot = {} THEN 100 * IntOf(t)
        ELSE LET i == CHOOSE n \in dot : TRUE
                 dec == SubStr(t, i, Len(t))
             IN  100 * IntOf(SubStr(t, 0, i - 1))
                 + (IF Len(dec) = 1 THEN 10 * IntOf(dec) ELSE IntOf(SubStr(dec, 0, 2)))

\* The offsets of the digits that start a $/€/£-prefixed amount.
C10_AmountStarts(text) ==
    {j \in 1..Len(text) :
        /\ text[j] \in Digit
        /\ \E i \in 1..(j - 1) :
              /\ text[i] \in CurrencySymbol
              /\ \A h \in (i + 1)..(j - 1) : text[h] \in Space}

C10_AmountAt(text, j) == SubStr(text, j - 1, C10_AmountEnd(text, j - 1))

\* C10: when no total keyword matches, extract_total returns the
\* $/€/£-prefixed amount of the text with the largest value (grouping commas
\* removed), the first of them in document order, written with a "$"; so it never
\* returns an amount smaller than another symbol-prefixed amount of the text.
C10_LargestAmountReturned ==
    (pc = "returned" /\ ~C6_KeywordThenDigit(raw_text)) =>
        LET starts == C10_AmountStarts(raw_text)
            value == [j \in starts |-> C10_Value(C10_AmountAt(raw_text, j))]
        IN  IF starts = {} THEN result = Null
            ELSE \E j \in starts :
                    /\ \A h \in starts : value[h] <= value[j]
                    /\ \A h \in starts : h < j => value[h] < value[j]
                    /\ result = <<"$">> \o C10_AmountAt(raw_text, j)

-----------------------------------------------------------------------------
(* The heuristic vendor extractor called on its own *)

InitVendor ==
    /\ pc = "extract_vendor_nlp"
    /\ raw_text \in TextsOf(VendorFragments, MaxFrags)
    /\ ocr = Null
    /\ ai_env = Null
    /\ known_vendors = Null
    /\ frame = <<>>
    /\ calls = <<>>
    /\ result = Null

CallExtractVendorNlp ==
    /\ pc = "extract_vendor_nlp"
    /\ result' = extract_vendor_nlp(raw_text)
    /\ calls' = Append(calls, "extract_vendor_nlp")
    /\ pc' = "returned"
    /\ UNCHANGED <<ocr, ai_env, raw_text, known_vendors, frame>>

NextVendor == CallExtractVendorNlp

SpecVendor == InitVendor /\ [][NextVendor]_vars

-----------------------------------------------------------------------------
(* The legacy fuzzy vendor matcher called on its own *)

InitFuzzy ==
    /\ pc = "extract_vendor"
    /\ raw_text \in TextsOf(FuzzyFragments, MaxFrags)
    /\ \E n \in 0..MaxVendors :
          /\ n <= Len(KNOWN_VENDORS)
          /\ known_vendors = SubSeq(KNOWN_VENDORS, 1, n)
    /\ ocr = Null
    /\ ai_env = Null
    /\ frame = <<>>
    /\ calls = <<>>
    /\ result = Null

CallExtractVendor ==
    /\ pc = "extract_vendor"
    /\ result' = extract_vendor(raw_text, known_vendors)
    /\ calls' = Append(calls, "extract_vendor")
    /\ pc' = "returned"
    /\ UNCHANGED <<ocr, ai_env, raw_text, known_vendors, frame>>

NextFuzzy == CallExtractVendor

SpecFuzzy == InitFuzzy /\ [][NextFuzzy]_vars

-----------------------------------------------------------------------------
(* C7 *)

C7_Acme == <<"A","c","m","e"," ","C","o","r","p"," ","L","L","C">>

C7_FirstLine(text) == Split(text, "\n")[1]

\* The words that end a vendor label of strategy 1.
C7_Labels ==
    {<<"f","r","o","m">>, <<"v","e","n","d","o","r">>, <<"b","y">>,
     <<"s","u","p","p","l","i","e","r">>, <<"c","o","m","p","a","n","y">>}

\* Some line holds a vendor label, in any letter case, directly followed by white
\* space or a colon.
C7_HasLabel(text) ==
    \E w \in C7_Labels : \E i \in 0..Len(text) :
        /\ StrAt(w, text, i, TRUE)
        /\ i + Len(w) < Len(text)
        /\ text[i + Len(w) + 1] \in Space \cup {":"}

\* C7 as stated: for every text whose first line contains "Acme Corp LLC",
\* whatever the other lines hold, extract_vendor_nlp returns a string that
\* contains "Acme Corp LLC".
C7_FirstLineVendorAlways ==
    (pc = "returned" /\ Contains(C7_FirstLine(raw_text), C7_Acme))
    => Contains(result, C7_Acme)

\* C7, amended: for every text whose first line contains "Acme Corp LLC" and
\* has, stripped of the characters strategy 2 drops, fewer than 100 characters,
\* and in which no vendor label is followed by white space or a colon,
\* extract_vendor_nlp returns a string that contains "Acme Corp LLC".
C7_FirstLineVendorWithoutLabel ==
    (/\ pc = "returned"
     /\ Contains(C7_FirstLine(raw_text), C7_Acme)
     /\ Len(SelectSeq(C7_FirstLine(raw_text),
                      LAMBDA c : c \in WordChar \cup Space \cup {"&", ".", "-"})) < 100
     /\ ~C7_HasLabel(raw_text))
    => Contains(result, C7_Acme)

\* The first line holds "Acme Corp LLC" among other characters, more lines follow
\* it, no line holds a label, and the vendor returned contains "Acme Corp LLC".
C7_AcmeFirstLineReturned ==
    /\ pc = "returned"
    /\ Contains(C7_FirstLine(raw_text), C7_Acme)
    /\ C7_FirstLine(raw_text) # C7_Acme
    /\ Len(Split(raw_text, "\n")) > 1
    /\ ~C7_HasLabel(raw_text)
    /\ Contains(result, C7_Acme)

-----------------------------------------------------------------------------
(* C8 *)

C8_Amazon == <<"A","m","a","z","o","n">>

C8_AmazonText ==
    <<"A","M","Z","N"," ","A","m","a","z","o","n"," ","W","e","b"," ",
      "S","e","r","v","i","c","e","s"," ","i","n","v","o","i","c","e">>

C8_Unrelated == <<"x","y","z","1","2","3">>

\* C8: the fuzzy matcher returns the best-scoring known vendor when its score is
\* at least 60 and None otherwise: None for an empty vendor list or an empty
\* text, "Amazon" for ["Amazon"] and "AMZN Amazon Web Services invoice", None for
\* ["Amazon"] and "xyz123"; and a known vendor that occurs in the text as it
\* stands, which scores 100, makes the answer a known vendor that occurs in the
\* text.
C8_FuzzyMatcher ==
    (pc = "returned" /\ calls = <<"extract_vendor">>) =>
        /\ (known_vendors = <<>> \/ raw_text = <<>>) => result = Null
        /\ (known_vendors = <<C8_Amazon>> /\ raw_text = C8_AmazonText) => result = C8_Amazon
        /\ (known_vendors = <<C8_Amazon>> /\ raw_text = C8_Unrelated) => result = Null
        /\ (\E n \in 1..Len(known_vendors) : Contains(raw_text, known_vendors[n]))
           => \E n \in 1..Len(known_vendors) :
                 result = known_vendors[n] /\ Contains(raw_text, known_vendors[n])

-----------------------------------------------------------------------------
(* extract_invoice_data *)

Init ==
    /\ pc = "perform_ocr"
    /\ ocr \in OcrServices
    /\ ai_env \in AiEnvs
    /\ raw_text = Null
    /\ known_vendors = Null
    /\ frame = <<>>
    /\ calls = <<>>
    /\ result = Null

\* raw_text = perform_ocr(image_path, api_key), and the two returns on failure
PerformOcr ==
    /\ pc = "perform_ocr"
    /\ calls' = Append(calls, "perform_ocr")
    /\ LET r == perform_ocr(ocr)
       IN  IF r.raised
           THEN /\ result' = [vendor |-> Null, date |-> Null, total |-> Null,
                              error |-> <<"O","C","R"," ","f","a","i","l","e","d",":"," ">>
                                        \o r.msg]
                /\ pc' = "done"
                /\ UNCHANGED raw_text
           ELSE IF falsy(r.value)
           THEN /\ result' = [vendor |-> Null, date |-> Null, total |-> Null,
                              error |-> <<"O","C","R"," ","f","a","i","l","e","d",":"," ",
                                          "N","o"," ","t","e","x","t"," ",
                                          "e","x","t","r","a","c","t","e","d">>]
                /\ pc' = "done"
                /\ raw_text' = r.value
           ELSE /\ raw_text' = r.value
                /\ pc' = "extract_with_ai"
                /\ UNCHANGED result
    /\ UNCHANGED <<ocr, ai_env, known_vendors, frame>>

\* ai_result = extract_with_ai(raw_text); if ai_result: ... return ai_result
ExtractWithAi ==
    /\ pc = "extract_with_ai"
    /\ calls' = Append(calls, "extract_with_ai")
    /\ LET r == extract_with_ai(raw_text, ai_env)
       IN  IF r.raised
           THEN /\ pc' = "raised"
                /\ UNCHANGED <<frame, result>>
           ELSE /\ frame' = [ai_result |-> r.value]
                /\ IF truthy(r.value)
                   THEN /\ result' = [k \in DOMAIN r.value \cup {"_ai_used"} |->
                                        IF k = "_ai_used" THEN TRUE ELSE r.value[k]]
                        /\ pc' = "done"
                   ELSE /\ pc' = "fallback_vendor"
                        /\ UNCHANGED result
    /\ UNCHANGED <<ocr, ai_env, raw_text, known_vendors>>

\* vendor = extract_vendor_nlp(raw_text)
FallbackVendor ==
    /\ pc = "fallback_vendor"
    /\ calls' = Append(calls, "extract_vendor_nlp")
    /\ frame' = [ai_result |-> frame.ai_result, vendor |-> extract_vendor_nlp(raw_text)]
    /\ pc' = "fallback_date"
    /\ UNCHANGED <<ocr, ai_env, raw_text, known_vendors, result>>

\* date = extract_date(raw_text)
FallbackDate ==
    /\ pc = "fallback_date"
    /\ calls' = Append(calls, "extract_date")
    /\ frame' = [ai_result |-> frame.ai_result, vendor |-> frame.vendor,
                 date |-> extract_date(raw_text)]
    /\ pc' = "fallback_total"
    /\ UNCHANGED <<ocr, ai_env, raw_text, known_vendors, result>>

\* total = extract_total(raw_text), and the return of the regex result
FallbackTotal ==
    /\ pc = "fallback_total"
    /\ calls' = Append(calls, "extract_total")
    /\ frame' = [ai_result |-> frame.ai_result, vendor |-> frame.vendor,
                 date |-> frame.date, total |-> extract_total(raw_text)]
    /\ result' = [k \in AiKeys \cup {"_ai_used"} |->
                    CASE k = "vendor" -> frame.vendor
                      [] k = "date" -> frame.date
                      [] k = "total" -> frame'.total
                      [] k = "line_items" -> <<>>
                      [] k = "_ai_used" -> FALSE
                      [] OTHER -> Null]
    /\ pc' = "done"
    /\ UNCHANGED <<ocr, ai_env, raw_text, known_vendors>>

Next ==
    \/ PerformOcr
    \/ ExtractWithAi
    \/ FallbackVendor
    \/ FallbackDate
    \/ FallbackTotal

Spec == Init /\ [][Next]_vars

-----------------------------------------------------------------------------
(* The orchestrator's contract *)

\* The OCR step fails: perform_ocr raises, or yields None or ''.
OcrFails == ocr.fault # "none" \/ ocr.text = <<>>

OcrFailedPrefix == <<"O","C","R"," ","f","a","i","l","e","d",":"," ">>

\* C1: whenever the OCR step raises or yields empty or absent text,
\* extract_invoice_data returns at once a result whose error is a string that
\* starts with "OCR failed: " and whose vendor, date and total are None, and
\* neither extract_with_ai nor a regex extractor is called.
C1_OcrFailureReturnsError ==
    (OcrFails /\ pc # "perform_ocr") =>
        /\ pc = "done"
        /\ calls = <<"perform_ocr">>
        /\ DOMAIN result = {"vendor", "date", "total", "error"}
        /\ result.error # Null
        /\ OccursAt(OcrFailedPrefix, result.error, 0)
        /\ result.vendor = Null
        /\ result.date = Null
        /\ result.total = Null

\* C1: the OCR service answered with an empty ParsedText and the error result
\* was returned.
C1_EmptyTextIsFailure ==
    /\ pc = "done"
    /\ ocr.fault = "none"
    /\ ocr.text = <<>>
    /\ calls = <<"perform_ocr">>
    /\ "error" \in DOMAIN result

RegexExtractors == {"extract_vendor_nlp", "extract_date", "extract_total"}

\* C2: after a successful OCR extract_with_ai is called exactly once and before
\* any regex extractor.  A result other than None is returned with its fields
\* unchanged and read as method ai, without any call of a regex extractor, even
\* when all its fields are None.  Only after None are extract_vendor_nlp,
\* extract_date and extract_total called, and the result is then read as method
\* regex, with invoice_number, tax, subtotal and summary None and line_items [].
C2_AiFirstThenFallback ==
    /\ \A n \in 1..Len(calls) :
          /\ calls[n] = "perform_ocr" <=> n = 1
          /\ calls[n] = "extract_with_ai" <=> n = 2
          /\ calls[n] \in RegexExtractors => frame.ai_result = NoneDict
    /\ (pc = "done" /\ ~OcrFails) =>
          /\ Len(calls) >= 2
          /\ IF frame.ai_result # NoneDict
             THEN /\ calls = <<"perform_ocr", "extract_with_ai">>
                  /\ \A k \in DOMAIN frame.ai_result :
                        k \in DOMAIN result /\ result[k] = frame.ai_result[k]
                  /\ extraction_method(result) = "ai"
             ELSE /\ calls = <<"perform_ocr", "extract_with_ai", "extract_vendor_nlp",
                               "extract_date", "extract_total">>
                  /\ extraction_method(result) = "regex"
                  /\ result.vendor = frame.vendor
                  /\ result.date = frame.date
                  /\ result.total = frame.total
                  /\ result.invoice_number = Null
                  /\ result.tax = Null
                  /\ result.subtotal = Null
                  /\ result.summary = Null
                  /\ result.line_items = <<>>

\* C2: an AI result all of whose fields are None was returned as it is, as
\* method ai, after the two calls.
C2_AllNullAiResultReturned ==
    /\ pc = "done"
    /\ calls = <<"perform_ocr", "extract_with_ai">>
    /\ frame.ai_result # NoneDict
    /\ \A k \in DOMAIN frame.ai_result \ {"line_items"} : frame.ai_result[k] = Null
    /\ \A k \in DOMAIN result \ {"line_items", "_ai_used"} : result[k] = Null
    /\ extraction_method(result) = "ai"

\* An AI failure mode: no key, a timeout or a network error, a status other than
\* 200, a body without the candidates/content/parts/text structure, or a
\* generated text that is not a JSON object.
AiFails ==
    \/ ~ai_env.key
    \/ ai_env.post # "ok"
    \/ ai_env.status_code # 200
    \/ ai_env.body # "text"
    \/ ai_env.generated_text.json.kind # "object"

\* C3: in every AI failure mode extract_with_ai returns None without raising and
\* extract_invoice_data returns the regex result, which carries no error; no
\* exception leaves extract_invoice_data, and a result carries an error only
\* when the OCR step failed.
C3_AiFailuresAbsorbed ==
    /\ pc # "raised"
    /\ (pc = "done" /\ "error" \in DOMAIN result) => OcrFails
    /\ (AiFails /\ Len(calls) >= 2) => frame.ai_result = NoneDict
    /\ (AiFails /\ pc = "done" /\ ~OcrFails) =>
          /\ DOMAIN result = AiKeys \cup {"_ai_used"}
          /\ extraction_method(result) = "regex"
          /\ result.vendor = extract_vendor_nlp(raw_text)
          /\ result.date = extract_date(raw_text)
          /\ result.total = extract_total(raw_text)
          /\ \A k \in {"invoice_number", "tax", "subtotal", "summary"} : result[k] = Null
          /\ result.line_items = <<>>

\* C3: the generated text was JSON but not an object, and the regex result was
\* returned without an error.
C3_NonObjectJsonFallsBack ==
    /\ pc = "done"
    /\ ai_env.key
    /\ ai_env.body = "text"
    /\ ai_env.generated_text.json.kind = "array"
    /\ extraction_method(result) = "regex"
    /\ "error" \notin DOMAIN result
    /\ Len(calls) = 5

StringFields == {"vendor", "date", "total", "invoice_number", "tax", "subtotal", "summary"}

\* C4: in every result returned by extract_invoice_data, on the AI path and on
\* the regex path, each of vendor, date, total, invoice_number, tax, subtotal and
\* summary is None or a string that is not empty and has no leading or trailing
\* whitespace.
C4_FieldsTrimmedOrNull ==
    pc = "done" =>
        \A k \in StringFields \cap DOMAIN result :
            \/ result[k] = Null
            \/ result[k] # <<>> /\ Strip(result[k]) = result[k]

-----------------------------------------------------------------------------
(* extract_vendor_nlp called on texts with blank lines *)

\* Lines that strategy 2 takes or skips, and runs of line breaks.
BlankLineFragments ==
    {<<"1","2","3","4","5">>,
     <<"S","o","l","d"," ","b","y">>,
     <<"\n">>,
     <<"\n","\n","\n","\n","\n">>,
     <<"a","b">>,
     <<"1","-","2"," ","(","3",")">>,
     <<"F","r","o","m",":"," ","B","o","b"," ","I","n","c">>,
     <<"*","A","b">>}

InitBlankLines ==
    /\ pc = "extract_vendor_nlp"
    /\ raw_text \in TextsOf(BlankLineFragments, MaxFrags)
    /\ ocr = Null
    /\ ai_env = Null
    /\ known_vendors = Null
    /\ frame = <<>>
    /\ calls = <<>>
    /\ result = Null

SpecBlankLines == InitBlankLines /\ [][NextVendor]_vars

C11_NonEmpty(lines) == SelectSeq(lines, LAMBDA l : Strip(l) # <<>>)

C11_First5(lines) == SubSeq(lines, 1, IF Len(lines) < 5 THEN Len(lines) ELSE 5)

\* A line that tier 2 accepts: of 3 characters or more, not of digits only, not
\* of digits, white space and separators only, with an uppercase letter followed
\* by lowercase letters, and of a length strictly between 2 and 100 once the
\* disallowed characters are stripped.
C11_Accepted(l) ==
    /\ Len(Strip(l)) >= 3
    /\ ~Match(Empty, only_numbers, Strip(l), FALSE).found
    /\ ~Match(Empty, only_numbers_and_separators, Strip(l), FALSE).found
    /\ Search(Empty, capitalized, Strip(l), FALSE).found
    /\ Len(Strip(clean(Strip(l)))) > 2
    /\ Len(Strip(clean(Strip(l)))) < 100

C11_FirstAccepted(lines) ==
    Strip(clean(Strip(lines[Smallest({n \in 1..Len(lines) : C11_Accepted(lines[n])})])))

\* C11: when no label-anchored line matches, tier 2 of extract_vendor_nlp looks
\* at the first 5 non-empty lines of the text, blank lines not counting toward
\* the 5: the first of them that is not under 3 characters, not digits only, not
\* digits, white space and separators only, and that holds an uppercase letter
\* followed by lowercase letters, is returned stripped of the disallowed
\* characters if its length is strictly between 2 and 100, even when blank lines
\* place it after the 5th physical line.
C11_FirstFiveNonEmptyLines ==
    (/\ pc = "returned"
     /\ raw_text # <<>>
     /\ strategy1(Split(Strip(raw_text), "\n"), 1, 1) = Null
     /\ \E n \in 1..Len(C11_First5(C11_NonEmpty(Split(Strip(raw_text), "\n")))) :
           C11_Accepted(C11_First5(C11_NonEmpty(Split(Strip(raw_text), "\n")))[n]))
    => result = C11_FirstAccepted(C11_First5(C11_NonEmpty(Split(Strip(raw_text), "\n"))))

=============================================================================
